---- MODULE Spec2Model ----
(***************************************************************************)
(* Friendship request lifecycle of backend-take-home.                      *)
(*                                                                         *)
(* The store is the `friendships` table; every request handler is an async *)
(* function, so a call is a sequence of store statements (one per `await`) *)
(* and the statements of concurrent calls interleave.  The body of         *)
(* ctx.db.transaction().execute(...) is one step: the transaction is       *)
(* serialised against every other statement and commits or rolls back as   *)
(* a whole.  Callers are authenticated users (authGuard has passed).       *)
(***************************************************************************)
EXTENDS Integers, FiniteSets, TLC

\* ------------------------------------------------------------------ bounds
NumUsers == 2      \* rows of the users table: ids 1..NumUsers
NumProcs == 2      \* request handlers that may be in flight together
MaxCalls == 4      \* calls started in one behaviour
NumInfoUsers == 4  \* users of the tables getById is run on by itself

Users == 1..NumUsers
\* ids a client may put in {friendUserId}: every user and one id of no user
Ids == 1..(NumUsers + 1)
Procs == 1..NumProcs

\* ------------------------------------------------------------------ types
\* Friendship.status
Status == {"requested", "accepted", "declined"}

\* what a handler hands back to tRPC
Ok == [code |-> "OK", message |-> ""]
\* new TRPCError({ code: 'BAD_REQUEST' }) of canSendFriendshipRequest
InvalidTarget == [code |-> "BAD_REQUEST", message |-> ""]
\* new TRPCError({ code: 'BAD_REQUEST' }) of canAnswerFriendshipRequest
NoPendingRequest == [code |-> "BAD_REQUEST", message |-> ""]
\* the TRPCError checkAndUpdateFriendshipRequest throws for an existing edge
RequestExists ==
  [code |-> "BAD_REQUEST", message |-> "Yeu cau ket ban da ton tai hoac da duoc chap nhan."]
\* new TRPCError({ code: 'NOT_FOUND' }) of getById
NotFound == [code |-> "NOT_FOUND", message |-> ""]
\* an error of the store that no handler catches
StoreError == [code |-> "INTERNAL_SERVER_ERROR", message |-> ""]
\* no call answered yet
NoResult == [code |-> "NONE", message |-> ""]

VARIABLES
  rows,      \* the friendships table: a set of Friendship records
  pc,        \* pc[p]: the statement handler p runs next
  req,       \* req[p]: the call p serves: op, userId (session), friendUserId (input)
  existing,  \* existing[p]: the handler's local existingFriendship
  mutual,    \* mutual[p]: getById's local mutualFriendCountResult
  result,    \* result[p]: outcome of the last call p served
  calls,     \* calls started so far
  users      \* ids of the users table, which no handler writes

vars == <<rows, pc, req, existing, mutual, result, calls, users>>

\* ------------------------------------------------------------------ store
\* rows of the ordered pair (u, f)
EdgeRows(t, u, f) == {r \in t : r.userId = u /\ r.friendUserId = f}

\* autoincrement primary key; rows are never deleted
NextId(t) == Cardinality(t) + 1

\* updateTable('friendships').set({status}).where(userId).where(friendUserId)
UpdateStatus(t, u, f, s) ==
  {IF r.userId = u /\ r.friendUserId = f THEN [r EXCEPT !.status = s] ELSE r : r \in t}

\* the uniqueness constraint on (userId, friendUserId)
UniqueViolation(t, u, f) == EdgeRows(t, u, f) # {}

\* insertInto('friendships').values({userId, friendUserId, status})
InsertRow(t, u, f, s) ==
  t \cup {[id |-> NextId(t), userId |-> u, friendUserId |-> f, status |-> s]}

\* the status an observer reads for (u, f): "none" when there is no row
StatusOf(t, u, f) ==
  IF EdgeRows(t, u, f) = {} THEN "none" ELSE (CHOOSE r \in EdgeRows(t, u, f) : TRUE).status

\* ------------------------------------------------------------------ guards
\* the guard that lets every id through
canSendFriendshipRequest_NoLookup(f) == f \in Ids

\* selectFrom('users').where('users.id', '=', friendUserId)
canSendFriendshipRequest(f) == f \in users

\* the guard without its where('friendships.status', '=', 'requested')
canAnswerFriendshipRequest_AnyStatus(t, u, f) == EdgeRows(t, f, u) # {}

\* a row (friendUserId, session.userId) with status 'requested'
canAnswerFriendshipRequest(t, u, f) ==
  \E r \in EdgeRows(t, f, u) : r.status = "requested"

\* ------------------------------------------------------------------ init
NoReq == [op |-> "none", userId |-> 1, friendUserId |-> 1]

Init ==
  /\ rows = {}
  /\ pc = [p \in Procs |-> "idle"]
  /\ req = [p \in Procs |-> NoReq]
  /\ existing = [p \in Procs |-> "none"]
  /\ mutual = [p \in Procs |-> 0]
  /\ result = [p \in Procs |-> NoResult]
  /\ calls = 0
  /\ users = Users

\* a request reaches handler p: tRPC takes the session's userId and the input
Begin(p, o, u, f) ==
  /\ pc[p] = "idle"
  /\ calls < MaxCalls
  /\ calls' = calls + 1
  /\ req' = [req EXCEPT ![p] = [op |-> o, userId |-> u, friendUserId |-> f]]
  /\ existing' = [existing EXCEPT ![p] = "none"]
  /\ mutual' = [mutual EXCEPT ![p] = 0]
  /\ result' = [result EXCEPT ![p] = NoResult]
  /\ UNCHANGED <<rows, users>>

\* the handler of p ends with outcome o
Finish(p, o) ==
  /\ pc' = [pc EXCEPT ![p] = "idle"]
  /\ result' = [result EXCEPT ![p] = o]

\* ------------------------------------------------------------------ send
\* a send request arrives
SendCall(p, u, f) ==
  /\ Begin(p, "send", u, f)
  /\ pc' = [pc EXCEPT ![p] = "send_guard"]

\* send: the canSendFriendshipRequest middleware
SendGuard(p) ==
  /\ pc[p] = "send_guard"
  /\ IF canSendFriendshipRequest(req[p].friendUserId)
       THEN /\ pc' = [pc EXCEPT ![p] = "send_select"]
            /\ UNCHANGED result
       ELSE Finish(p, InvalidTarget)
  /\ UNCHANGED <<rows, req, existing, mutual, calls, users>>

\* the lookup that rejects every existing edge, a declined one too
SendSelect_RejectDeclined(p) ==
  /\ pc[p] = "send_select"
  /\ LET found == EdgeRows(rows, req[p].userId, req[p].friendUserId) IN
       \/ /\ found = {}
          /\ existing' = [existing EXCEPT ![p] = "none"]
          /\ pc' = [pc EXCEPT ![p] = "send_write"]
          /\ UNCHANGED result
       \/ \E r \in found :
            /\ existing' = [existing EXCEPT ![p] = r.status]
            /\ Finish(p, RequestExists)
  /\ UNCHANGED <<rows, req, mutual, calls, users>>

\* the lookup that rejects a requested edge only and reopens any other
SendSelect_ReopenAccepted(p) ==
  /\ pc[p] = "send_select"
  /\ LET found == EdgeRows(rows, req[p].userId, req[p].friendUserId) IN
       \/ /\ found = {}
          /\ existing' = [existing EXCEPT ![p] = "none"]
          /\ pc' = [pc EXCEPT ![p] = "send_write"]
          /\ UNCHANGED result
       \/ \E r \in found :
            /\ existing' = [existing EXCEPT ![p] = r.status]
            /\ IF r.status # "requested"
                 THEN /\ pc' = [pc EXCEPT ![p] = "send_write"]
                      /\ UNCHANGED result
                 ELSE Finish(p, RequestExists)
  /\ UNCHANGED <<rows, req, mutual, calls, users>>

\* checkAndUpdateFriendshipRequest: the lookup and the branch on its result
SendSelect(p) ==
  /\ pc[p] = "send_select"
  /\ LET found == EdgeRows(rows, req[p].userId, req[p].friendUserId) IN
       \/ /\ found = {}
          /\ existing' = [existing EXCEPT ![p] = "none"]
          /\ pc' = [pc EXCEPT ![p] = "send_write"]
          /\ UNCHANGED result
       \/ \E r \in found :
            /\ existing' = [existing EXCEPT ![p] = r.status]
            /\ IF r.status = "declined"
                 THEN /\ pc' = [pc EXCEPT ![p] = "send_write"]
                      /\ UNCHANGED result
                 ELSE Finish(p, RequestExists)
  /\ UNCHANGED <<rows, req, mutual, calls, users>>

\* the update built but never executed: the declined edge keeps its status
SendUpdate_KeepDeclined(p) ==
  /\ pc[p] = "send_write"
  /\ existing[p] = "declined"
  /\ Finish(p, Ok)
  /\ UNCHANGED <<rows, req, existing, mutual, calls, users>>

\* checkAndUpdateFriendshipRequest: a declined edge is set back to requested
SendUpdate(p) ==
  /\ pc[p] = "send_write"
  /\ existing[p] = "declined"
  /\ rows' = UpdateStatus(rows, req[p].userId, req[p].friendUserId, "requested")
  /\ Finish(p, Ok)
  /\ UNCHANGED <<req, existing, mutual, calls, users>>

\* the insert that stores the request in both directions
SendInsert_Symmetric(p) ==
  /\ pc[p] = "send_write"
  /\ existing[p] = "none"
  /\ IF UniqueViolation(rows, req[p].userId, req[p].friendUserId)
       THEN /\ UNCHANGED rows
            /\ Finish(p, StoreError)
       ELSE /\ LET t1 == InsertRow(rows, req[p].userId, req[p].friendUserId, "requested") IN
                 rows' = IF UniqueViolation(t1, req[p].friendUserId, req[p].userId)
                           THEN t1
                           ELSE InsertRow(t1, req[p].friendUserId, req[p].userId, "requested")
            /\ Finish(p, Ok)
  /\ UNCHANGED <<req, existing, mutual, calls, users>>

\* checkAndUpdateFriendshipRequest: no edge was found, a requested one is inserted
SendInsert(p) ==
  /\ pc[p] = "send_write"
  /\ existing[p] = "none"
  /\ IF UniqueViolation(rows, req[p].userId, req[p].friendUserId)
       THEN /\ UNCHANGED rows
            /\ Finish(p, StoreError)
       ELSE /\ rows' = InsertRow(rows, req[p].userId, req[p].friendUserId, "requested")
            /\ Finish(p, Ok)
  /\ UNCHANGED <<req, existing, mutual, calls, users>>

\* ------------------------------------------------------------------ accept
\* an accept request arrives
AcceptCall(p, u, f) ==
  /\ Begin(p, "accept", u, f)
  /\ pc' = [pc EXCEPT ![p] = "accept_guard"]

\* accept: the canAnswerFriendshipRequest middleware
AcceptGuard(p) ==
  /\ pc[p] = "accept_guard"
  /\ IF canAnswerFriendshipRequest(rows, req[p].userId, req[p].friendUserId)
       THEN /\ pc' = [pc EXCEPT ![p] = "accept_tx"]
            /\ UNCHANGED result
       ELSE Finish(p, NoPendingRequest)
  /\ UNCHANGED <<rows, req, existing, mutual, calls, users>>

\* acceptFriendshipRequest, first statement: the inbound edge becomes accepted
AcceptInbound(t, u, f) == UpdateStatus(t, f, u, "accepted")

\* acceptFriendshipRequest, the lookup of the caller's own edge (u, f)
AcceptLookup(t, u, f) == EdgeRows(AcceptInbound(t, u, f), u, f)

\* acceptFriendshipRequest that leaves an existing mirror edge as it is
acceptFriendshipRequest_KeepMirror(t, u, f) ==
  LET t1 == AcceptInbound(t, u, f) IN
    IF AcceptLookup(t, u, f) # {}
      THEN [ok |-> TRUE, table |-> t1]
      ELSE [ok |-> TRUE, table |-> InsertRow(t1, u, f, "accepted")]

\* acceptFriendshipRequest that inserts the mirror edge without looking it up
acceptFriendshipRequest_AlwaysInsert(t, u, f) ==
  LET t1 == AcceptInbound(t, u, f) IN
    IF UniqueViolation(t1, u, f)
      THEN [ok |-> FALSE, table |-> t1]
      ELSE [ok |-> TRUE, table |-> InsertRow(t1, u, f, "accepted")]

\* acceptFriendshipRequest(t, userId, friendUserId): the table it leaves, and
\* whether every statement went through
acceptFriendshipRequest(t, u, f) ==
  LET t1 == AcceptInbound(t, u, f) IN
    IF AcceptLookup(t, u, f) # {}
      THEN [ok |-> TRUE, table |-> UpdateStatus(t1, u, f, "accepted")]
      ELSE IF UniqueViolation(t1, u, f)
             THEN [ok |-> FALSE, table |-> t1]
             ELSE [ok |-> TRUE, table |-> InsertRow(t1, u, f, "accepted")]

\* accept: ctx.db.transaction().execute(acceptFriendshipRequest); a statement
\* that fails rolls the transaction back and the error reaches the caller
AcceptTx(p) ==
  /\ pc[p] = "accept_tx"
  /\ LET u == req[p].userId
         f == req[p].friendUserId
         tx == acceptFriendshipRequest(rows, u, f) IN
       /\ \/ /\ AcceptLookup(rows, u, f) = {}
             /\ existing' = [existing EXCEPT ![p] = "none"]
          \/ \E r \in AcceptLookup(rows, u, f) :
               existing' = [existing EXCEPT ![p] = r.status]
       /\ IF tx.ok
            THEN /\ rows' = tx.table
                 /\ Finish(p, Ok)
            ELSE /\ UNCHANGED rows
                 /\ Finish(p, StoreError)
  /\ UNCHANGED <<req, mutual, calls, users>>

\* the handler without its transaction: the inbound update stays when the
\* mirror write throws
AcceptTxFail_NoRollback(p) ==
  /\ pc[p] = "accept_tx"
  /\ rows' = AcceptInbound(rows, req[p].userId, req[p].friendUserId)
  /\ Finish(p, StoreError)
  /\ UNCHANGED <<req, existing, mutual, calls, users>>

\* accept when the store refuses the insert or update of the mirror edge:
\* the statement throws inside ctx.db.transaction().execute, the inbound
\* update is rolled back with it and the error reaches the caller
AcceptTxFail(p) ==
  /\ pc[p] = "accept_tx"
  /\ rows' = rows
  /\ Finish(p, StoreError)
  /\ UNCHANGED <<req, existing, mutual, calls, users>>

\* ------------------------------------------------------------------ decline
\* a decline request arrives
DeclineCall(p, u, f) ==
  /\ Begin(p, "decline", u, f)
  /\ pc' = [pc EXCEPT ![p] = "decline_guard"]

\* decline: the canAnswerFriendshipRequest middleware
DeclineGuard(p) ==
  /\ pc[p] = "decline_guard"
  /\ IF canAnswerFriendshipRequest(rows, req[p].userId, req[p].friendUserId)
       THEN /\ pc' = [pc EXCEPT ![p] = "decline_write"]
            /\ UNCHANGED result
       ELSE Finish(p, NoPendingRequest)
  /\ UNCHANGED <<rows, req, existing, mutual, calls, users>>

\* the decline that also records a declined mirror row for the caller
DeclineUpdate_CreatesMirror(p) ==
  /\ pc[p] = "decline_write"
  /\ LET t1 == UpdateStatus(rows, req[p].friendUserId, req[p].userId, "declined") IN
       rows' = IF UniqueViolation(t1, req[p].userId, req[p].friendUserId)
                 THEN t1
                 ELSE InsertRow(t1, req[p].userId, req[p].friendUserId, "declined")
  /\ Finish(p, Ok)
  /\ UNCHANGED <<req, existing, mutual, calls, users>>

\* the decline that removes the request instead of marking it
DeclineUpdate_DeleteRow(p) ==
  /\ pc[p] = "decline_write"
  /\ rows' = rows \ EdgeRows(rows, req[p].friendUserId, req[p].userId)
  /\ Finish(p, Ok)
  /\ UNCHANGED <<req, existing, mutual, calls, users>>

\* the decline that sets both directions of the pair to declined
DeclineUpdate_BothSides(p) ==
  /\ pc[p] = "decline_write"
  /\ rows' = UpdateStatus(UpdateStatus(rows, req[p].friendUserId, req[p].userId, "declined"),
                          req[p].userId, req[p].friendUserId, "declined")
  /\ Finish(p, Ok)
  /\ UNCHANGED <<req, existing, mutual, calls, users>>

\* decline: the edge (friendUserId, session.userId) is set to declined
DeclineUpdate(p) ==
  /\ pc[p] = "decline_write"
  /\ rows' = UpdateStatus(rows, req[p].friendUserId, req[p].userId, "declined")
  /\ Finish(p, Ok)
  /\ UNCHANGED <<req, existing, mutual, calls, users>>

\* ------------------------------------------------------------------ getById
\* the join without its last where clause: f2 of any status
mutualFriendCount_AnyTargetEdge(t, u, f) ==
  Cardinality({pair \in t \X t :
                 /\ pair[1].friendUserId = pair[2].friendUserId
                 /\ pair[1].userId = u
                 /\ pair[2].userId = f
                 /\ pair[1].status = "accepted"})

\* f1 join f2 on friendUserId, f1 of the caller, f2 of the target, both accepted
mutualFriendCount(t, u, f) ==
  Cardinality({pair \in t \X t :
                 /\ pair[1].friendUserId = pair[2].friendUserId
                 /\ pair[1].userId = u
                 /\ pair[2].userId = f
                 /\ pair[1].status = "accepted"
                 /\ pair[2].status = "accepted"})

\* accepted rows grouped by userId, with their count
userTotalFriendCount(t) ==
  {[userId |-> x,
    totalFriendCount |-> Cardinality({r \in t : r.userId = x /\ r.status = "accepted"})] :
     x \in {r.userId : r \in {q \in t : q.status = "accepted"}}}

\* users join friendships join userTotalFriendCount, for the accepted edge (u, f)
friendInfo(t, u, f) ==
  {[id |-> x, totalFriendCount |-> g.totalFriendCount] :
     <<x, r, g>> \in {tr \in users \X t \X userTotalFriendCount(t) :
                        /\ tr[2].friendUserId = tr[1]
                        /\ tr[3].userId = tr[1]
                        /\ tr[2].userId = u
                        /\ tr[2].friendUserId = f
                        /\ tr[2].status = "accepted"}}

\* a getById request arrives
GetByIdCall(p, u, f) ==
  /\ Begin(p, "getById", u, f)
  /\ pc' = [pc EXCEPT ![p] = "get_mutual"]

\* getById, first query: the mutual friend count
GetByIdMutual(p) ==
  /\ pc[p] = "get_mutual"
  /\ mutual' = [mutual EXCEPT ![p] =
                  mutualFriendCount(rows, req[p].userId, req[p].friendUserId)]
  /\ pc' = [pc EXCEPT ![p] = "get_info"]
  /\ UNCHANGED <<rows, req, existing, result, calls, users>>

\* getById, second query and the combined record
GetByIdInfo(p) ==
  /\ pc[p] = "get_info"
  /\ LET info == friendInfo(rows, req[p].userId, req[p].friendUserId) IN
       \/ /\ info = {}
          /\ Finish(p, NotFound)
       \/ \E i \in info :
            Finish(p, [code |-> "OK", message |-> "", id |-> i.id,
                       totalFriendCount |-> i.totalFriendCount,
                       mutualFriendCount |-> mutual[p]])
  /\ UNCHANGED <<rows, req, existing, mutual, calls, users>>

Next ==
  \/ \E p \in Procs, u \in Users, f \in Ids : SendCall(p, u, f)
  \/ \E p \in Procs : SendGuard(p)
  \/ \E p \in Procs : SendSelect(p)
  \/ \E p \in Procs : SendUpdate(p)
  \/ \E p \in Procs : SendInsert(p)
  \/ \E p \in Procs, u \in Users, f \in Ids : AcceptCall(p, u, f)
  \/ \E p \in Procs : AcceptGuard(p)
  \/ \E p \in Procs : AcceptTx(p)
  \/ \E p \in Procs, u \in Users, f \in Ids : DeclineCall(p, u, f)
  \/ \E p \in Procs : DeclineGuard(p)
  \/ \E p \in Procs : DeclineUpdate(p)
  \/ \E p \in Procs, u \in Users, f \in Ids : GetByIdCall(p, u, f)
  \/ \E p \in Procs : GetByIdMutual(p)
  \/ \E p \in Procs : GetByIdInfo(p)

Spec == Init /\ [][Next]_vars

\* ------------------------------------------------- a store that can fail
\* the handlers of Spec on a store whose mirror write may throw
NextFault ==
  \/ Next
  \/ \E p \in Procs : AcceptTxFail(p)

SpecFault == Init /\ [][NextFault]_vars

\* ------------------------------------------------------- getById on its own
\* The two queries of getById are functions of the table they read. They are
\* run here, one call per behaviour, on tables of NumInfoUsers users.
InfoUsers == 1..NumInfoUsers

\* unordered pairs of distinct users, smaller id first
InfoPairs == {e \in InfoUsers \X InfoUsers : e[1] < e[2]}

\* statuses <<(a,b), (b,a)>> that send, accept and decline leave on a pair:
\* untouched, friends, a request of b answered by accept and decline at once,
\* a pending request of a
PairStates ==
  { <<"none", "none">>, <<"accepted", "accepted">>, <<"accepted", "declined">>,
    <<"requested", "none">> }

\* status of the ordered pair e under the assignment g of InfoPairs
EdgeOf(g, e) == IF e[1] < e[2] THEN g[e][1] ELSE g[<<e[2], e[1]>>][2]

\* the friendships table of g: one row per ordered pair that has a status
TableOf(g) ==
  {[id |-> NumInfoUsers * (e[1] - 1) + e[2], userId |-> e[1],
    friendUserId |-> e[2], status |-> EdgeOf(g, e)] :
     e \in {d \in InfoUsers \X InfoUsers : d[1] # d[2] /\ EdgeOf(g, d) # "none"}}

InitInfo ==
  /\ rows \in {TableOf(g) : g \in [InfoPairs -> PairStates]}
  /\ pc = [p \in Procs |-> "idle"]
  /\ req = [p \in Procs |-> NoReq]
  /\ existing = [p \in Procs |-> "none"]
  /\ mutual = [p \in Procs |-> 0]
  /\ result = [p \in Procs |-> NoResult]
  /\ calls = MaxCalls - 1
  /\ users = InfoUsers

NextInfo ==
  \/ \E p \in Procs, u \in InfoUsers, f \in InfoUsers : GetByIdCall(p, u, f)
  \/ \E p \in Procs : GetByIdMutual(p)
  \/ \E p \in Procs : GetByIdInfo(p)

SpecInfo == InitInfo /\ [][NextInfo]_vars

\* ------------------------------------------------- one client, one request
\* no handler is in flight
AllIdle == \A p \in Procs : pc[p] = "idle"

\* the calls of the pair a, b, one after the other has returned: a sends to
\* b, b declines, a sends again, b accepts
ScenarioCall(p, a, b) ==
  /\ AllIdle
  /\ a # b
  /\ calls > 0 => EdgeRows(rows, a, b) # {}
  /\ \/ calls = 0 /\ SendCall(p, a, b)
     \/ calls = 1 /\ DeclineCall(p, b, a)
     \/ calls = 2 /\ SendCall(p, a, b)
     \/ calls = 3 /\ AcceptCall(p, b, a)

NextScenario ==
  \/ \E p \in Procs, a \in Users, b \in Users : ScenarioCall(p, a, b)
  \/ \E p \in Procs : SendGuard(p)
  \/ \E p \in Procs : SendSelect(p)
  \/ \E p \in Procs : SendUpdate(p)
  \/ \E p \in Procs : SendInsert(p)
  \/ \E p \in Procs : AcceptGuard(p)
  \/ \E p \in Procs : AcceptTx(p)
  \/ \E p \in Procs : DeclineGuard(p)
  \/ \E p \in Procs : DeclineUpdate(p)

SpecScenario == Init /\ [][NextScenario]_vars

\* ------------------------------------------------------------------ claims
\* the edge (u, f) is stored with status s
HasStatus(t, u, f, s) == \E r \in EdgeRows(t, u, f) : r.status = s

\* every row of (u, f) has status s, and there is one
AllStatus(t, u, f, s) ==
  /\ EdgeRows(t, u, f) # {}
  /\ \A r \in EdgeRows(t, u, f) : r.status = s

\* handler p takes a step that leaves statement at
Leaves(p, at) == pc[p] = at /\ pc'[p] # at

\* C1: in every state, edge (A,B) is accepted if and only if edge (B,A) is accepted
C1_Symmetry ==
  \A u \in Users, f \in Users :
    HasStatus(rows, u, f, "accepted") <=> HasStatus(rows, f, u, "accepted")

\* C2: an accept that succeeds leaves the inbound edge (requester, caller) and
\* the mirror (caller, requester) accepted; an absent mirror is inserted, a
\* present one keeps its row
C2_AcceptPostcondition ==
  [][\A p \in Procs :
       (Leaves(p, "accept_tx") /\ result'[p] = Ok) =>
         LET u == req[p].userId
             f == req[p].friendUserId IN
           /\ AllStatus(rows', f, u, "accepted")
           /\ AllStatus(rows', u, f, "accepted")
           /\ {r.id : r \in rows} \subseteq {r.id : r \in rows'}
           /\ Cardinality(rows') =
                Cardinality(rows) + (IF EdgeRows(rows, u, f) = {} THEN 1 ELSE 0)]_vars

\* C2 witness: an accept succeeded whose mirror edge was declined before it
C2_Witness ==
  \E p \in Procs :
    /\ req[p].op = "accept"
    /\ pc[p] = "idle"
    /\ result[p] = Ok
    /\ existing[p] = "declined"
    /\ req[p].userId # req[p].friendUserId
    /\ AllStatus(rows, req[p].userId, req[p].friendUserId, "accepted")
    /\ AllStatus(rows, req[p].friendUserId, req[p].userId, "accepted")

\* the lookup of handler p (its local existingFriendship) still describes the
\* stored edge (u, f): no other call changed that edge since p read it
LookupCurrent(p) ==
  /\ Cardinality(EdgeRows(rows, req[p].userId, req[p].friendUserId)) <= 1
  /\ existing[p] = StatusOf(rows, req[p].userId, req[p].friendUserId)

\* C3: send(A,B) that finds no edge (A,B) or a declined edge (A,B) is not
\* rejected; its write, applied to the edge it looked up, succeeds and leaves
\* exactly one row (A,B), requested: a new row when there was none, the same
\* row when it was declined
C3_SendTransition ==
  [][\A p \in Procs :
       LET u == req[p].userId
           f == req[p].friendUserId IN
         /\ (Leaves(p, "send_select") /\ StatusOf(rows, u, f) \in {"none", "declined"})
              => (pc'[p] = "send_write" /\ existing'[p] = StatusOf(rows, u, f))
         /\ (Leaves(p, "send_write") /\ LookupCurrent(p)) =>
              /\ result'[p] = Ok
              /\ pc'[p] = "idle"
              /\ Cardinality(EdgeRows(rows', u, f)) = 1
              /\ AllStatus(rows', u, f, "requested")
              /\ {r.id : r \in EdgeRows(rows, u, f)} \subseteq {r.id : r \in EdgeRows(rows', u, f)}
              /\ Cardinality(rows') =
                   Cardinality(rows) + (IF existing[p] = "none" THEN 1 ELSE 0)]_vars

\* C3 witness: a send reopened a declined edge, which is requested again
C3_Witness ==
  \E p \in Procs :
    /\ req[p].op = "send"
    /\ pc[p] = "idle"
    /\ result[p] = Ok
    /\ existing[p] = "declined"
    /\ AllStatus(rows, req[p].userId, req[p].friendUserId, "requested")

\* C4 as stated: a send rejected on a requested edge and a send rejected on an
\* accepted edge end with two distinct error outcomes
C4_DistinctErrors ==
  \A p \in Procs, q \in Procs :
    ( /\ req[p].op = "send" /\ pc[p] = "idle" /\ existing[p] = "requested"
      /\ req[q].op = "send" /\ pc[q] = "idle" /\ existing[q] = "accepted" )
      => result[p] # result[q]

\* C4 amended: send(A,B) while (A,B) is requested or accepted is rejected with
\* the one BAD_REQUEST error of checkAndUpdateFriendshipRequest, the same in
\* both cases, and the store is unchanged
C4_SendRejection ==
  [][\A p \in Procs :
       (Leaves(p, "send_select")
          /\ StatusOf(rows, req[p].userId, req[p].friendUserId) \in {"requested", "accepted"})
         => /\ pc'[p] = "idle"
            /\ result'[p] = RequestExists
            /\ existing'[p] = StatusOf(rows, req[p].userId, req[p].friendUserId)
            /\ rows' = rows]_vars

\* C4 witness: a second send(A,B) was rejected and (A,B) is one requested row
C4_Witness ==
  \E p \in Procs :
    /\ req[p].op = "send"
    /\ pc[p] = "idle"
    /\ result[p] = RequestExists
    /\ existing[p] = "requested"
    /\ Cardinality(EdgeRows(rows, req[p].userId, req[p].friendUserId)) = 1
    /\ AllStatus(rows, req[p].userId, req[p].friendUserId, "requested")

\* C5: accept and decline are rejected with NoPendingRequest, every edge
\* unchanged, unless edge (requester, caller) is requested when the guard
\* runs; only then does the handler go on to its write
C5_AnswerGuard ==
  [][\A p \in Procs :
       (Leaves(p, "accept_guard") \/ Leaves(p, "decline_guard")) =>
         /\ rows' = rows
         /\ IF HasStatus(rows, req[p].friendUserId, req[p].userId, "requested")
              THEN pc'[p] = (IF req[p].op = "accept" THEN "accept_tx" ELSE "decline_write")
              ELSE pc'[p] = "idle" /\ result'[p] = NoPendingRequest]_vars

\* C5 witness: an accept was rejected although the caller's own request to
\* the same user, the opposite direction, is pending
C5_Witness ==
  \E p \in Procs :
    /\ req[p].op = "accept"
    /\ pc[p] = "idle"
    /\ result[p] = NoPendingRequest
    /\ req[p].userId # req[p].friendUserId
    /\ AllStatus(rows, req[p].userId, req[p].friendUserId, "requested")
    /\ EdgeRows(rows, req[p].friendUserId, req[p].userId) = {}

\* rows of every ordered pair but (u, f)
OtherRows(t, u, f) == t \ EdgeRows(t, u, f)

\* C6: the write of decline(B, A) changes the edge (A,B) and nothing else: it
\* is declined afterwards (from requested, when it still was), no row appears
\* or disappears, and the mirror (B,A) and every other edge keep their status
C6_DeclineOneSided ==
  [][\A p \in Procs :
       Leaves(p, "decline_write") =>
         LET u == req[p].userId
             f == req[p].friendUserId IN
           /\ result'[p] = Ok
           /\ OtherRows(rows', f, u) = OtherRows(rows, f, u)
           /\ {r.id : r \in EdgeRows(rows', f, u)} = {r.id : r \in EdgeRows(rows, f, u)}
           /\ AllStatus(rows', f, u, "declined")
           /\ (u # f => EdgeRows(rows', u, f) = EdgeRows(rows, u, f))]_vars

\* C6 witness: after send(A,B) and decline by B the table is the one row
\* (A,B), declined, and there is no row (B,A)
C6_Witness ==
  \E p \in Procs :
    /\ req[p].op = "decline"
    /\ pc[p] = "idle"
    /\ result[p] = Ok
    /\ req[p].userId # req[p].friendUserId
    /\ Cardinality(rows) = 1
    /\ AllStatus(rows, req[p].friendUserId, req[p].userId, "declined")
    /\ EdgeRows(rows, req[p].userId, req[p].friendUserId) = {}

C8_NoSelfEdges == \A r \in rows : r.userId # r.friendUserId

\* C9: send to an id that is no user's is rejected with InvalidTarget at the
\* guard, and the guard, passing or not, leaves the table as it is
C9_SendGuard ==
  [][\A p \in Procs :
       Leaves(p, "send_guard") =>
         /\ rows' = rows
         /\ (req[p].friendUserId \notin Users
               => pc'[p] = "idle" /\ result'[p] = InvalidTarget)]_vars

\* C9 witness: a send to the id of no user was rejected and the table is empty
C9_Witness ==
  \E p \in Procs :
    /\ req[p].op = "send"
    /\ req[p].friendUserId \notin Users
    /\ pc[p] = "idle"
    /\ result[p] = InvalidTarget
    /\ rows = {}

\* C10: getById(caller, target) returns a record if and only if an accepted
\* edge (caller, target) is stored, fails with NotFound otherwise, and changes
\* no edge
C10_FriendInfoAvailability ==
  [][\A p \in Procs :
       Leaves(p, "get_info") =>
         /\ rows' = rows
         /\ IF HasStatus(rows, req[p].userId, req[p].friendUserId, "accepted")
              THEN result'[p].code = "OK"
              ELSE result'[p] = NotFound]_vars

\* number of accepted edges whose userId is f
AcceptedEdgesOf(t, f) == Cardinality({r \in t : r.userId = f /\ r.status = "accepted"})

\* number of distinct users x with (u, x) and (f, x) both accepted
SharedFriends(t, u, f) ==
  Cardinality({x \in {r.friendUserId : r \in t} :
                 HasStatus(t, u, x, "accepted") /\ HasStatus(t, f, x, "accepted")})

\* C11: the first query of getById(caller, target) yields the number of
\* distinct users X with (caller, X) and (target, X) both accepted in the
\* table it reads; a getById that succeeds returns that number as
\* mutualFriendCount, the target's id, and as totalFriendCount the number of
\* accepted edges with userId = target in the table its second query reads
C11_FriendInfoCounts ==
  [][\A p \in Procs :
       LET u == req[p].userId
           f == req[p].friendUserId IN
         /\ Leaves(p, "get_mutual") => mutual'[p] = SharedFriends(rows, u, f)
         /\ (Leaves(p, "get_info") /\ result'[p].code = "OK") =>
              /\ result'[p].id = f
              /\ result'[p].totalFriendCount = AcceptedEdgesOf(rows, f)
              /\ result'[p].mutualFriendCount = mutual[p]]_vars

\* C11 witness: getById succeeded for a target with three accepted edges that
\* shares two friends with the caller, and returned 3 and 2
C11_Witness ==
  \E p \in Procs :
    /\ req[p].op = "getById"
    /\ pc[p] = "idle"
    /\ result[p].code = "OK"
    /\ result[p].totalFriendCount = 3
    /\ result[p].mutualFriendCount = 2
    /\ AcceptedEdgesOf(rows, req[p].friendUserId) = 3
    /\ SharedFriends(rows, req[p].userId, req[p].friendUserId) = 2

\* C12: when the edges (A,B), (A,C), (D,B), (D,C) of four distinct users are
\* accepted, the mutual friend count that getById computes for caller B and
\* target C, and for caller C and target B, is 2
C12_MutualCountOfTwo ==
  [][\A p \in Procs :
       Leaves(p, "get_mutual") =>
         LET b == req[p].userId
             c == req[p].friendUserId IN
           \A a \in InfoUsers, d \in InfoUsers :
             ( /\ Cardinality({a, b, c, d}) = 4
               /\ HasStatus(rows, a, b, "accepted") /\ HasStatus(rows, a, c, "accepted")
               /\ HasStatus(rows, d, b, "accepted") /\ HasStatus(rows, d, c, "accepted") )
               => mutual'[p] = 2]_vars

\* C13: when send(A,B), decline by B, send(A,B), accept by B are called one
\* after the other on a table without edges of A and B, each call returns Ok;
\* (A,B) is requested after the first, declined after the second, requested
\* after the third, all without a row (B,A), and after the fourth (A,B) and
\* (B,A) are accepted
C13_ReopenScenario ==
  /\ \A p \in Procs : (pc[p] = "idle" /\ req[p].op # "none") => result[p] = Ok
  /\ AllIdle =>
       \/ calls = 0 /\ rows = {}
       \/ \E a \in Users, b \in Users :
            /\ a # b
            /\ Cardinality(EdgeRows(rows, a, b)) = 1
            /\ \/ calls = 1 /\ AllStatus(rows, a, b, "requested") /\ Cardinality(rows) = 1
               \/ calls = 2 /\ AllStatus(rows, a, b, "declined") /\ Cardinality(rows) = 1
               \/ calls = 3 /\ AllStatus(rows, a, b, "requested") /\ Cardinality(rows) = 1
               \/ /\ calls = 4
                  /\ AllStatus(rows, a, b, "accepted")
                  /\ AllStatus(rows, b, a, "accepted")
                  /\ Cardinality(rows) = 2

\* C13 witness: the fourth call, the accept, has returned Ok and both
\* directions of the pair are accepted
C13_Witness ==
  /\ AllIdle
  /\ calls = 4
  /\ \E p \in Procs :
       /\ req[p].op = "accept"
       /\ result[p] = Ok
       /\ existing[p] = "none"
       /\ AllStatus(rows, req[p].userId, req[p].friendUserId, "accepted")
       /\ AllStatus(rows, req[p].friendUserId, req[p].userId, "accepted")

\* C14: no step of send, accept, decline or getById, succeeding or rejected,
\* removes a row: every row is still stored after the step with its id and
\* its ordered pair, so a pair that has a row has one in every later state
C14_EdgesNeverDeleted ==
  [][\A r \in rows :
       \E q \in rows' :
         q.id = r.id /\ q.userId = r.userId /\ q.friendUserId = r.friendUserId]_vars

\* C14 witness: a request was declined, an accept of it was then rejected,
\* and its row is still stored, declined
C14_Witness ==
  \E p \in Procs, q \in Procs :
    /\ req[p].op = "decline" /\ pc[p] = "idle" /\ result[p] = Ok
    /\ req[q].op = "accept" /\ pc[q] = "idle" /\ result[q] = NoPendingRequest
    /\ req[q].userId = req[p].userId
    /\ req[q].friendUserId = req[p].friendUserId
    /\ Cardinality(EdgeRows(rows, req[p].friendUserId, req[p].userId)) = 1
    /\ AllStatus(rows, req[p].friendUserId, req[p].userId, "declined")

\* C15: whenever accept or decline writes, the inbound edge (requester,
\* caller) it writes to is requested in the table at that moment
C15_AnswerWritesRequested ==
  [][\A p \in Procs :
       (Leaves(p, "accept_tx") \/ Leaves(p, "decline_write")) =>
         HasStatus(rows, req[p].friendUserId, req[p].userId, "requested")]_vars

\* C16: the write of send(A,B) never changes an edge (A,B) that is accepted
\* in the table at the moment of the write
C16_SendKeepsAccepted ==
  [][\A p \in Procs :
       (Leaves(p, "send_write")
          /\ HasStatus(rows, req[p].userId, req[p].friendUserId, "accepted"))
         => EdgeRows(rows', req[p].userId, req[p].friendUserId)
              = EdgeRows(rows, req[p].userId, req[p].friendUserId)]_vars

\* C17: the accept transaction is one step for every other operation: either
\* it returns Ok and the inbound edge and the mirror are both accepted after
\* it, or it returns an error and the table is the one it started from (an
\* inbound edge that was requested still is, and no mirror row was added)
C17_AcceptAllOrNothing ==
  [][\A p \in Procs :
       Leaves(p, "accept_tx") =>
         LET u == req[p].userId
             f == req[p].friendUserId IN
           /\ pc'[p] = "idle"
           /\ \/ /\ result'[p] = Ok
                 /\ AllStatus(rows', f, u, "accepted")
                 /\ AllStatus(rows', u, f, "accepted")
              \/ /\ result'[p] = StoreError
                 /\ rows' = rows
                 /\ HasStatus(rows, f, u, "requested") => HasStatus(rows', f, u, "requested")
                 /\ EdgeRows(rows', u, f) = EdgeRows(rows, u, f)]_vars

\* C17 witness: an accept ended in a store error; the request it answered is
\* still requested and the caller has no mirror row
C17_Witness ==
  \E p \in Procs :
    /\ req[p].op = "accept"
    /\ pc[p] = "idle"
    /\ result[p] = StoreError
    /\ req[p].userId # req[p].friendUserId
    /\ AllStatus(rows, req[p].friendUserId, req[p].userId, "requested")
    /\ EdgeRows(rows, req[p].userId, req[p].friendUserId) = {}

\* C18 as stated: whenever an edge (A,B) is requested, so that decline(B, A)
\* is permitted, there is no row (B,A)
C18_NoMirrorAtDecline ==
  \A a \in Users, b \in Users :
    (a # b /\ HasStatus(rows, a, b, "requested")) => EdgeRows(rows, b, a) = {}

\* C18 amended: a row (B,A) is created by B's own send to A, as requested, or
\* by B's own accept of A, as accepted, and by no other step; it may
\* therefore exist when decline(B, A) is permitted, and the write of decline
\* leaves it as it is
C18_MirrorCreation ==
  [][/\ \A r \in rows' :
          r.id \notin {q.id : q \in rows} =>
            \E p \in Procs :
              /\ req[p].userId = r.userId
              /\ req[p].friendUserId = r.friendUserId
              /\ \/ Leaves(p, "send_write") /\ r.status = "requested"
                 \/ Leaves(p, "accept_tx") /\ r.status = "accepted"
     /\ \A p \in Procs :
          (Leaves(p, "decline_write") /\ req[p].userId # req[p].friendUserId) =>
            EdgeRows(rows', req[p].userId, req[p].friendUserId)
              = EdgeRows(rows, req[p].userId, req[p].friendUserId)]_vars

\* C18 witness: B declined the request of A while B's own request to A, the
\* mirror row, was pending, and it still is
C18_Witness ==
  \E p \in Procs :
    /\ req[p].op = "decline"
    /\ pc[p] = "idle"
    /\ result[p] = Ok
    /\ req[p].userId # req[p].friendUserId
    /\ AllStatus(rows, req[p].friendUserId, req[p].userId, "declined")
    /\ Cardinality(EdgeRows(rows, req[p].userId, req[p].friendUserId)) = 1
    /\ AllStatus(rows, req[p].userId, req[p].friendUserId, "requested")

\* C19: no step of send(caller, target), whether the call succeeds or is
\* rejected at the guard, at the lookup or at the write, adds, removes or
\* changes a row of any ordered pair other than (caller, target); the mirror
\* (target, caller) is one of those
C19_SendFrame ==
  [][\A p \in Procs :
       (Leaves(p, "send_guard") \/ Leaves(p, "send_select") \/ Leaves(p, "send_write")) =>
         OtherRows(rows', req[p].userId, req[p].friendUserId)
           = OtherRows(rows, req[p].userId, req[p].friendUserId)]_vars

\* C19 witness: a send reopened the caller's declined edge and returned Ok
\* while the mirror edge, the target's own request, is pending, one row
C19_Witness ==
  \E p \in Procs :
    /\ req[p].op = "send"
    /\ pc[p] = "idle"
    /\ result[p] = Ok
    /\ existing[p] = "declined"
    /\ req[p].userId # req[p].friendUserId
    /\ AllStatus(rows, req[p].userId, req[p].friendUserId, "requested")
    /\ Cardinality(EdgeRows(rows, req[p].friendUserId, req[p].userId)) = 1
    /\ AllStatus(rows, req[p].friendUserId, req[p].userId, "requested")

\* C20: a step that takes an edge (X,Y) of two users out of declined is the
\* write of a send by X to Y, which leaves it requested, or the transaction
\* of an accept by X of Y, which leaves it accepted as the mirror side; no
\* accept or decline by Y moves it
C20_ExitsFromDeclined ==
  [][\A x \in Users, y \in Users :
       (x # y /\ HasStatus(rows, x, y, "declined") /\ ~AllStatus(rows', x, y, "declined")) =>
         \E p \in Procs :
           /\ req[p].userId = x
           /\ req[p].friendUserId = y
           /\ \/ Leaves(p, "send_write") /\ AllStatus(rows', x, y, "requested")
              \/ Leaves(p, "accept_tx") /\ AllStatus(rows', x, y, "accepted")]_vars
====
